---- MODULE Spec2Model ----
(***************************************************************************)
(* Model of src/Sysware_status.py: a Discord bot that polls a JSON status  *)
(* document and mirrors it into one edited message.                        *)
(*                                                                         *)
(* The event loop is single threaded: every action below is the code that  *)
(* runs between two suspension points (awaits).                            *)
(***************************************************************************)
EXTENDS Integers, Sequences, FiniteSets, TLC

\* ------------------------------------------------------------------ bounds
\* Number of timer ticks explored.
MaxTicks == 2
\* Number of !setstatus invocations explored.
MaxSetups == 1

\* --------------------------------------------------------------- constants
\* STATUS_MESSAGE_ID as it may be configured in the environment: 0 (the
\* default) or the identifier of a message created by hand.
ConfiguredId == 1
\* Accent colours of the embed.
ColorDefault == 5793266
ColorOperational == 5763719
ColorCritical == 15548997
ColorDegraded == 16705372

\* last_update of a component that was never updated (Python None).
None == 0
\* Text shown for a last_update of None.
NeverText == -1

Components == {"admin", "usermode", "server"}
\* The order of the update loop.
ComponentOrder == <<"admin", "usermode", "server">>

\* Glyphs are named by their colour.
STATUS_OPTIONS ==
  [admin    |-> [Online |-> "green", Busy |-> "yellow", Sleeping |-> "orange", Offline |-> "red"],
   usermode |-> [Online |-> "green", Updating |-> "yellow", Offline |-> "red"],
   server   |-> [Online |-> "green", Medium |-> "yellow", Offline |-> "red"]]

FallbackGlyph == "white"

\* Mutant: every category is looked up in the admin table.
get_status_color_AdminTable(category, status) ==
  IF status \in DOMAIN STATUS_OPTIONS["admin"]
  THEN STATUS_OPTIONS["admin"][status]
  ELSE FallbackGlyph
get_status_color(category, status) ==
  IF category \in DOMAIN STATUS_OPTIONS /\ status \in DOMAIN STATUS_OPTIONS[category]
  THEN STATUS_OPTIONS[category][status]
  ELSE FallbackGlyph

InitialStatus ==
  [c \in Components |-> [status |-> "Offline", last_update |-> None, color |-> "red"]]

\* ------------------------------------------------------------ JSON values
\* A JSON value is a pair <<type, text>>; text is "" for the non-strings.
JStr(s) == <<"string", s>>
JNum == <<"number", "">>
JNull == <<"null", "">>
JList == <<"list", "">>
JObj == <<"object", "">>
\* The key is not in the object.
Absent == <<"absent", "">>

\* Every status word of STATUS_OPTIONS; each is foreign to some component.
Words == {"Online", "Busy", "Sleeping", "Updating", "Medium", "Offline"}
JValues == {JStr(w) : w \in Words} \cup {JNum, JNull, JList, JObj}

\* The keys of a fetched object: the three recognized ones and one other.
Keys == Components \cup {"extra"}
NoVal == [k \in Keys |-> Absent]
ObjVals ==
  {v \in [Keys -> JValues \cup {Absent}] : v["extra"] \in {Absent, JStr("Online")}}

\* What one GET can bring back.  net: whether the request completed; http:
\* the status; kind: what response.json() yields ("notjson": it raises);
\* has: for a list, the recognized names among its elements, for a string,
\* the recognized names that are substrings of it; val: an object's values.
Resp(net, http, kind, has, val) ==
  [net |-> net, http |-> http, kind |-> kind, has |-> has, val |-> val]
Responses ==
       {Resp("fail", 0, "none", {}, NoVal)}
  \cup {Resp("ok", s, "none", {}, NoVal) : s \in {404, 500}}
  \cup {Resp("ok", 200, k, {}, NoVal) : k \in {"notjson", "number", "null"}}
  \cup {Resp("ok", 200, k, h, NoVal) : k \in {"list", "string"}, h \in SUBSET Components}
  \cup {Resp("ok", 200, "object", {}, v) : v \in ObjVals}

\* The responses that carry no JSON object.
OtherResponses == {resp \in Responses : resp.kind # "object"}
\* The object that holds value under key and nothing else.
ObjWith(key, value) == Resp("ok", 200, "object", {}, [NoVal EXCEPT ![key] = value])

\* `component in data`: raises TypeError on a number or null.
ContainsRaises(data) == data.kind \in {"number", "null"}
Contains(data, component) ==
  IF data.kind = "object" THEN data.val[component] # Absent
  ELSE component \in data.has
\* `data[component]`: a list or a string cannot be indexed by a string.
SubscriptRaises(data) == data.kind # "object"
\* `new_status in STATUS_OPTIONS.get(component, {})` hashes new_status:
\* a list or a dict is unhashable and raises TypeError.
MembershipRaises(new_status) == new_status[1] \in {"list", "object"}
\* Mutant: the value is looked up in every component's table.
InOptions_AnyComponent(component, new_status) ==
  /\ new_status[1] = "string"
  /\ \E c \in Components : new_status[2] \in DOMAIN STATUS_OPTIONS[c]
InOptions(component, new_status) ==
  /\ new_status[1] = "string"
  /\ new_status[2] \in DOMAIN STATUS_OPTIONS[component]
\* Mutant: the entry is rewritten whether or not the status changed.
StatusChanged_Always(stored, new_status) == TRUE
\* `current_status[component]['status'] != new_status`
StatusChanged(stored, new_status) == stored # new_status[2]

\* Mutant: the last_update assignment is missing.
UpdateEntry_NoStamp(component, new_status, t) ==
  [status |-> new_status[2],
   color |-> get_status_color(component, new_status[2]),
   last_update |-> None]
UpdateEntry(component, new_status, t) ==
  [status |-> new_status[2],
   color |-> get_status_color(component, new_status[2]),
   last_update |-> t]

\* The state of the update loop: the store so far, and whether an
\* exception has left the loop.
Acc(store, raised) == [store |-> store, raised |-> raised]

\* One iteration of the update loop.  It reads data's key `component` only.
LoopBody(acc, data, component, t) ==
  IF acc.raised THEN acc
  ELSE IF ContainsRaises(data) THEN Acc(acc.store, TRUE)
  ELSE IF ~Contains(data, component) THEN acc
  ELSE IF SubscriptRaises(data) THEN Acc(acc.store, TRUE)
  ELSE LET new_status == data.val[component] IN
    IF MembershipRaises(new_status) THEN Acc(acc.store, TRUE)
    ELSE IF InOptions(component, new_status)
            /\ StatusChanged(acc.store[component].status, new_status)
    THEN Acc([acc.store EXCEPT ![component] = UpdateEntry(component, new_status, t)], FALSE)
    ELSE acc

\* The update loop from component i on.
RECURSIVE UpdateLoop(_, _, _, _)
UpdateLoop(i, acc, data, t) ==
  IF i > Len(ComponentOrder) THEN acc
  ELSE UpdateLoop(i + 1, LoopBody(acc, data, ComponentOrder[i], t), data, t)

\* `except Exception` of the fetch: whether an exception raised inside the
\* try block is caught there.
FetchCatches == TRUE

\* What the call hands back.  ret: the boolean returned; escaped: an
\* exception left the call; suspended: the call has not ended, it awaits.
Returned(store, ret) ==
  [store |-> store, ret |-> ret, escaped |-> FALSE, suspended |-> FALSE]
Raised(store) ==
  [store |-> store, ret |-> FALSE, escaped |-> ~FetchCatches, suspended |-> FALSE]
\* The end of the try block after the loop: return True, or the handler.
Finish(acc) == IF acc.raised THEN Raised(acc.store) ELSE Returned(acc.store, TRUE)

\* fetch_status_from_github on response resp at wall-clock time t.
fetch_status_from_github(store, resp, t) ==
  IF resp.net = "fail" \/ (resp.http = 200 /\ resp.kind = "notjson")
  THEN Raised(store)
  ELSE IF resp.http # 200
  THEN Returned(store, FALSE)
  ELSE Finish(UpdateLoop(1, Acc(store, FALSE), resp, t))

\* The loop states after iteration i over every object, its values drawn
\* key by key in the order the loop reads them.
RECURSIVE LoopStates(_, _, _)
LoopStates(i, store, t) ==
  IF i = 0 THEN {Acc(store, FALSE)}
  ELSE {LoopBody(acc, ObjWith(ComponentOrder[i], v), ComponentOrder[i], t) :
          acc \in LoopStates(i - 1, store, t), v \in JValues \cup {Absent}}

\* Every outcome the call can have, over the responses it can receive.
FetchResults(store, t) ==
       {fetch_status_from_github(store, resp, t) : resp \in OtherResponses}
  \cup {Finish(acc) : acc \in LoopStates(Len(ComponentOrder), store, t)}

\* Mutant: the loop body awaits, so the call can hand control back after
\* its first or its second iteration.
LoopSuspensions_AwaitInBody(store, t) ==
  {[store |-> acc.store, ret |-> FALSE, escaped |-> FALSE, suspended |-> TRUE] :
     acc \in {a \in LoopStates(1, store, t) \cup LoopStates(2, store, t) :
                ~a.raised}}
\* The points inside the update loop at which the call hands control back
\* to the event loop: the loop body holds no await, so there is none.
LoopSuspensions(store, t) == {}

\* --------------------------------------------------------------- renderer
all_online(store) == \A c \in Components : store[c].status \in {"Online"}
\* Mutant: any() written as all().
any_offline_All(store) == \A c \in Components : store[c].status = "Offline"
any_offline(store) == \E c \in Components : store[c].status = "Offline"

Health(store) ==
  IF all_online(store) THEN [health |-> "All Systems Operational", color |-> ColorOperational]
  ELSE IF any_offline(store) THEN [health |-> "Critical Issues Detected", color |-> ColorCritical]
  ELSE [health |-> "Some Systems Degraded", color |-> ColorDegraded]

\* Mutant: the timestamp is dropped, every field shows 'Never'.
Field_DropsTimestamp(entry) ==
  [glyph |-> entry.color, status |-> entry.status, last_update |-> NeverText]
Field(entry) ==
  [glyph |-> entry.color,
   status |-> entry.status,
   last_update |-> IF entry.last_update = None THEN NeverText ELSE entry.last_update]

create_status_embed(store) ==
  [fields |-> [c \in Components |-> Field(store[c])],
   color |-> Health(store).color,
   footer |-> Health(store).health]

NoEmbed == create_status_embed(InitialStatus)

\* Mutant: the 'Never' shown for a missing last_update is written back.
StoreAfterRender_WritesBack(store) ==
  [c \in Components |->
     [store[c] EXCEPT !.last_update = Field(store[c]).last_update]]
\* The store when create_status_embed returns: it reads current_status and
\* assigns to none of its entries.
StoreAfterRender(store) == store

\* ------------------------------------------------------------------ state
VARIABLES
  current_status,     \* the Status Store
  boundary,           \* history: the Status Store when the last fetch returned
  status_message_id,  \* the target message identifier (0: not configured)
  ready,              \* the platform connection has signalled readiness
  now,                \* the wall clock, in timer intervals
  loopPc,             \* where the auto_update_status task stands
  ticks,              \* ticks started
  fetches,            \* fetches returned
  publishes,          \* publish attempts started
  fetchRet,           \* what the tick's fetch returned
  channel,            \* whether bot.get_channel found the channel in this tick
  pub,                \* the locals of the update_status_message call in flight
  log,                \* the line update_status_message printed in this tick
  edited,             \* the edit the tick's publish made, or NoEdit
  setupPc,            \* where the !setstatus command stands
  setupEmbed,         \* the embed the command rendered
  setups,             \* commands invoked
  setupsSent,         \* commands whose status message was sent
  created             \* the messages the bot created in the channel, in order

vars == <<current_status, boundary, status_message_id, ready, now, loopPc, ticks, fetches,
          publishes, fetchRet, channel, pub, log, edited, setupPc, setupEmbed,
          setups, setupsSent, created>>

storeVars == <<current_status, boundary>>
tickVars == <<now, loopPc, ticks, fetches, publishes, fetchRet, channel, pub, log, edited>>
setupVars == <<setupPc, setupEmbed, setups, setupsSent>>

NoEdit == [id |-> 0, embed |-> NoEmbed]
NoLog == "none"
\* target: the identifier passed to fetch_message; embed: the rendered embed.
NoPub == [target |-> 0, embed |-> NoEmbed]

Init ==
  /\ current_status = InitialStatus
  /\ boundary = InitialStatus
  /\ status_message_id \in {0, ConfiguredId}
  /\ ready = FALSE
  /\ now = 0
  /\ loopPc = "not_started"
  /\ ticks = 0
  /\ fetches = 0
  /\ publishes = 0
  /\ fetchRet = FALSE
  /\ channel = FALSE
  /\ pub = NoPub
  /\ log = NoLog
  /\ edited = NoEdit
  /\ setupPc = "idle"
  /\ setupEmbed = NoEmbed
  /\ setups = 0
  /\ setupsSent = 0
  /\ created = <<>>

\* ------------------------------------------------------------ tick driver
\* The platform connection becomes ready.
Connect ==
  /\ ~ready
  /\ ready' = TRUE
  /\ UNCHANGED <<storeVars, status_message_id, tickVars, setupVars, created>>

\* Mutant: auto_update_status.start() runs at import, before the connection.
on_ready_AtImport ==
  /\ loopPc' = IF loopPc = "not_started" THEN "before_loop" ELSE loopPc
  /\ UNCHANGED <<storeVars, status_message_id, ready, now, ticks, fetches, publishes,
                 fetchRet, channel, pub, log, edited, setupVars, created>>
\* on_ready: auto_update_status.start().  A second start() of a running
\* task raises RuntimeError inside the event handler and starts nothing.
on_ready ==
  /\ ready
  /\ loopPc' = IF loopPc = "not_started" THEN "before_loop" ELSE loopPc
  /\ UNCHANGED <<storeVars, status_message_id, ready, now, ticks, fetches, publishes,
                 fetchRet, channel, pub, log, edited, setupVars, created>>

\* before_auto_update: await bot.wait_until_ready().
before_auto_update ==
  /\ loopPc = "before_loop"
  /\ ready
  /\ loopPc' = "sleeping"
  /\ UNCHANGED <<storeVars, status_message_id, ready, now, ticks, fetches, publishes,
                 fetchRet, channel, pub, log, edited, setupVars, created>>

\* The timer fires: auto_update_status begins and awaits the GET.  The loop
\* task runs one handler at a time and sleeps between two of them.
TickStart ==
  /\ loopPc = "sleeping"
  /\ ticks < MaxTicks
  /\ ticks' = ticks + 1
  /\ now' = now + 1
  /\ loopPc' = "fetching"
  /\ fetchRet' = FALSE
  /\ channel' = FALSE
  /\ pub' = NoPub
  /\ log' = NoLog
  /\ edited' = NoEdit
  /\ UNCHANGED <<storeVars, status_message_id, ready, fetches, publishes, setupVars, created>>

\* Mutant: the publish is skipped when the fetch failed.
AfterFetch_SkipOnFailure(ret) == IF ret THEN "fetched" ELSE "sleeping"
\* auto_update_status after `await fetch_status_from_github()`: the return
\* value is dropped and update_status_message is called next.
AfterFetch(ret) == "fetched"

\* The GET and response.json() return: the rest of fetch_status_from_github
\* runs without suspending.
FetchReturn ==
  /\ loopPc = "fetching"
  /\ \E r \in FetchResults(current_status, now)
                \cup LoopSuspensions(current_status, now) :
       /\ current_status' = r.store
       /\ fetchRet' = r.ret
       /\ IF r.suspended
          THEN UNCHANGED <<loopPc, fetches, boundary>>
          ELSE /\ loopPc' = IF r.escaped THEN "stopped" ELSE AfterFetch(r.ret)
               /\ fetches' = fetches + 1
               /\ boundary' = r.store
  /\ UNCHANGED <<status_message_id, ready, now, ticks, publishes, channel, pub, log,
                 edited, setupVars, created>>

\* Mutant: the identifier is used without the test for 0.
HasTarget_Always(id) == TRUE
\* `status_message_id and status_message_id != 0`
HasTarget(id) == id # 0

\* Mutant: a target that is not found is replaced by a new message.
PublishHandler_Recreates(exc) ==
  IF exc = "not_found"
  THEN [line |-> "not_found", escaped |-> FALSE, creates |-> TRUE]
  ELSE [line |-> "edit_error", escaped |-> FALSE, creates |-> FALSE]
\* Mutant: only discord.NotFound is handled.
PublishHandler_Reraises(exc) ==
  IF exc = "not_found"
  THEN [line |-> "not_found", escaped |-> FALSE, creates |-> FALSE]
  ELSE [line |-> "none", escaped |-> TRUE, creates |-> FALSE]
\* The except clauses around fetch_message and edit.  creates: whether the
\* handler sends a replacement message.
PublishHandler(exc) ==
  IF exc = "not_found"
  THEN [line |-> "not_found", escaped |-> FALSE, creates |-> FALSE]
  ELSE [line |-> "edit_error", escaped |-> FALSE, creates |-> FALSE]

\* update_status_message up to its first await, or to its return.
PublishStart ==
  /\ loopPc = "fetched"
  /\ publishes' = publishes + 1
  /\ fetchRet' = FALSE
  /\ \E found \in BOOLEAN :
       /\ channel' = found
       /\ IF ~found
          THEN /\ log' = "channel_not_found"
               /\ loopPc' = "sleeping"
               /\ pub' = pub
               /\ UNCHANGED storeVars
          ELSE LET embed == create_status_embed(current_status) IN
               /\ current_status' = StoreAfterRender(current_status)
               /\ UNCHANGED boundary
               /\ IF HasTarget(status_message_id)
                  THEN /\ pub' = [target |-> status_message_id, embed |-> embed]
                       /\ loopPc' = "pub_fetch_message"
                       /\ log' = log
                  ELSE /\ log' = "no_id"
                       /\ loopPc' = "sleeping"
                       /\ pub' = pub
  /\ UNCHANGED <<status_message_id, ready, now, ticks, fetches,
                 edited, setupVars, created>>

\* An exception of a platform call of the publisher reaches its handlers.
PublishRaise(exc) ==
  LET h == PublishHandler(exc) IN
    /\ log' = h.line
    /\ loopPc' = IF h.escaped THEN "stopped" ELSE "sleeping"
    /\ created' = IF h.creates THEN Append(created, "embed") ELSE created
    /\ pub' = NoPub
    /\ UNCHANGED edited

\* `await channel.fetch_message(status_message_id)` returns or raises.
PubFetchMessageReturn ==
  /\ loopPc = "pub_fetch_message"
  /\ \E outcome \in {"ok", "not_found", "error"} :
       IF outcome = "ok"
       THEN /\ loopPc' = "pub_edit"
            /\ UNCHANGED <<pub, log, edited, created>>
       ELSE PublishRaise(outcome)
  /\ UNCHANGED <<storeVars, status_message_id, ready, now, ticks, fetches, publishes,
                 fetchRet, channel, setupVars>>

\* `await message.edit(embed=embed)` returns or raises.
PubEditReturn ==
  /\ loopPc = "pub_edit"
  /\ \E outcome \in {"ok", "not_found", "error"} :
       IF outcome = "ok"
       THEN /\ edited' = [id |-> pub.target, embed |-> pub.embed]
            /\ log' = "updated"
            /\ loopPc' = "sleeping"
            /\ pub' = NoPub
            /\ UNCHANGED created
       ELSE PublishRaise(outcome)
  /\ UNCHANGED <<storeVars, status_message_id, ready, now, ticks, fetches, publishes,
                 fetchRet, channel, setupVars>>

\* ---------------------------------------------------------- setup command
\* The identifier the platform gives the n-th message the bot creates.
MessageId(n) == ConfiguredId + n

\* create_initial_status up to `await ctx.send(embed=embed)`; has_permissions
\* lets only an administrator's invocation reach the body.
SetupInvoke ==
  /\ ready
  /\ setupPc = "idle"
  /\ setups < MaxSetups
  /\ setups' = setups + 1
  /\ setupEmbed' = create_status_embed(current_status)
  /\ current_status' = StoreAfterRender(current_status)
  /\ UNCHANGED boundary
  /\ setupPc' = "sending"
  /\ UNCHANGED <<status_message_id, ready, tickVars, setupsSent, created>>

\* Mutant: the `global` declaration is missing, the assignment is local.
AssignTarget_Local(old, id) == old
\* `global status_message_id` and `status_message_id = message.id`.
AssignTarget(old, id) == id

\* The send returns the new message (its id becomes the target) or raises.
SetupSendReturn ==
  /\ setupPc = "sending"
  /\ \E ok \in BOOLEAN :
       IF ok
       THEN /\ created' = Append(created, "embed")
            /\ status_message_id' =
                 AssignTarget(status_message_id, MessageId(Len(created) + 1))
            /\ setupsSent' = setupsSent + 1
            /\ setupPc' = "confirming"
       ELSE /\ setupPc' = "idle"
            /\ UNCHANGED <<created, status_message_id, setupsSent>>
  /\ setupEmbed' = NoEmbed
  /\ UNCHANGED <<storeVars, ready, tickVars, setups>>

\* The confirmation `await ctx.send(...)` returns or raises.
SetupConfirmReturn ==
  /\ setupPc = "confirming"
  /\ \E ok \in BOOLEAN :
       created' = IF ok THEN Append(created, "text") ELSE created
  /\ setupPc' = "idle"
  /\ UNCHANGED <<storeVars, status_message_id, ready, tickVars, setupEmbed, setups, setupsSent>>

\* ---------------------------------------------------------- specification
\* The auto_update_status task.
Tick ==
  \/ before_auto_update
  \/ TickStart
  \/ FetchReturn
  \/ PublishStart
  \/ PubFetchMessageReturn
  \/ PubEditReturn

\* The !setstatus command.
Setup ==
  \/ SetupInvoke
  \/ SetupSendReturn
  \/ SetupConfirmReturn

Next ==
  \/ Connect
  \/ on_ready
  \/ Tick
  \/ Setup

Spec == Init /\ [][Next]_vars

\* The bot when nobody invokes the command.
TickNext ==
  \/ Connect
  \/ on_ready
  \/ Tick

TickSpec == Init /\ [][TickNext]_vars

\* The event loop runs every ready callback, the timer fires, and every
\* await is assumed to return.
FairTickSpec == TickSpec /\ WF_vars(Connect) /\ WF_vars(on_ready) /\ WF_vars(Tick)

\* ================================================================== claims
\* The outcomes FetchReturn draws from are those of the call over every
\* response, objects included.
FetchResultsAgree ==
  loopPc = "fetching" =>
    FetchResults(current_status, now) =
      {fetch_status_from_github(current_status, resp, now) : resp \in Responses}

\* A value the claims call "in the component's allowed set".
Allowed(c, v) == v[1] = "string" /\ v[2] \in DOMAIN STATUS_OPTIONS[c]
\* A value present under a key and not in the allowed set, of any JSON type.
OutOfSet(c, v) == v # Absent /\ ~Allowed(c, v)
ObjectResponses == {resp \in Responses : resp.kind = "object"}
\* The entry a fetch at time t must leave for a key that carries value v.
Expected(store, c, v, t) ==
  IF Allowed(c, v) /\ v[2] # store[c].status
  THEN [status |-> v[2], color |-> STATUS_OPTIONS[c][v[2]], last_update |-> t]
  ELSE store[c]

\* C1: whenever fetch_status_from_github returns False, whatever the
\* response was, the Status Store is what it was before the call, and no
\* exception leaves the call.
C1_FailedFetchLeavesStore ==
  [][(loopPc = "fetching" /\ loopPc' # "fetching" /\ ~fetchRet')
       => (current_status' = current_status /\ loopPc' # "stopped")]_vars

\* C2: in a fetched object, a value outside a component's allowed set, of
\* any JSON type, is ignored for that key only: the fetch returns True and
\* every recognized key with an allowed value that differs from the stored
\* one is updated.
C2_OutOfSetIgnoredPerKey ==
  loopPc = "fetching" =>
    \A resp \in ObjectResponses :
      (\E k \in Components : OutOfSet(k, resp.val[k])) =>
        LET r == fetch_status_from_github(current_status, resp, now) IN
          /\ r.ret
          /\ \A c \in Components :
               (Allowed(c, resp.val[c]) /\ resp.val[c][2] # current_status[c].status)
                 => r.store[c].status = resp.val[c][2]

\* C3: each component's stored status is always a key of that component's
\* own entry in STATUS_OPTIONS.
C3_StatusInOwnOptions ==
  \A c \in Components : current_status[c].status \in DOMAIN STATUS_OPTIONS[c]

\* A tick's fetch and a command have run, and components hold words that
\* only their own tables allow.
C3_Witness ==
  /\ ticks >= 1
  /\ setupsSent >= 1
  /\ current_status["admin"].status = "Sleeping"
  /\ current_status["usermode"].status = "Updating"
  /\ current_status["server"].status = "Medium"

\* C4: for every fetched object, each recognized key whose value is allowed
\* and differs from the stored one gets status, glyph and last_update of
\* this fetch; every other entry is left as it was.
C4_FetchUpdatesExactly ==
  loopPc = "fetching" =>
    \A resp \in ObjectResponses :
      LET r == fetch_status_from_github(current_status, resp, now) IN
        \A c \in Components :
          r.store[c] = Expected(current_status, c, resp.val[c], now)

\* C5: the same object applied by two successful fetches in a row, the
\* clock having advanced in between, leaves every entry after the second
\* fetch as it was after the first.
C5_FetchIdempotent ==
  loopPc = "fetching" =>
    \A resp \in Responses :
      LET r1 == fetch_status_from_github(current_status, resp, now) IN
        r1.ret =>
          LET r2 == fetch_status_from_github(r1.store, resp, now + 1) IN
            r2.ret => r2.store = r1.store

\* The second tick's fetch has returned True on an object that the first
\* tick's fetch had applied to the initial store: the entries it set then
\* still carry the first fetch's time.
C5_Witness ==
  /\ ticks = 2
  /\ loopPc = "fetched"
  /\ fetchRet
  /\ current_status["admin"] = [status |-> "Online", last_update |-> 1, color |-> "green"]
  /\ current_status["server"] = [status |-> "Medium", last_update |-> 1, color |-> "yellow"]
  /\ \E resp \in ObjectResponses :
       /\ resp.val["admin"] = JStr("Online")
       /\ resp.val["server"] = JStr("Medium")
       /\ fetch_status_from_github(InitialStatus, resp, 1) = Returned(current_status, TRUE)
       /\ fetch_status_from_github(current_status, resp, 2) = Returned(current_status, TRUE)

\* The messages of one kind the bot has created.
Count(kind) == Cardinality({i \in 1..Len(created) : created[i] = kind})

\* C6 as stated: the number of messages ever created equals the number of
\* setup commands that sent their message.
C6_MessagesEqualSetups == Len(created) = setupsSent

\* C6 as amended: update_status_message never creates a message; only the
\* setup command does, one status message per command that sent it and at
\* most one confirmation message after it.
C6_OnlySetupCreates ==
  /\ Count("embed") = setupsSent
  /\ Count("text") <= setupsSent
  /\ Len(created) = Count("embed") + Count("text")

\* A publish found no message under its target and a command has sent its
\* status message and its confirmation.
C6_Witness ==
  /\ log = "not_found"
  /\ setupsSent = 1
  /\ created = <<"embed", "text">>

\* A step of update_status_message from its call to its first await or
\* its return, begun while the target identifier is 0.
PublishStepAtZero ==
  loopPc = "fetched" /\ loopPc' # "fetched" /\ status_message_id = 0
\* No message fetch, edit or create is begun.
NoPlatformCall ==
  loopPc' = "sleeping" /\ pub' = pub /\ edited' = edited /\ created' = created

\* C7 as stated: invoked while the target identifier is 0, the publisher
\* makes no platform call and logs the warning to configure one, also when
\* the channel cannot be resolved.
C7_ZeroTargetWarns ==
  [][PublishStepAtZero => (NoPlatformCall /\ log' = "no_id")]_vars

\* C7 as amended: invoked while the target identifier is 0, the publisher
\* makes no platform call; it logs the warning to configure one when the
\* channel resolves, and "Channel not found!" when it does not.
C7_ZeroTargetNoCall ==
  [][PublishStepAtZero =>
       /\ NoPlatformCall
       /\ log' = IF channel' THEN "no_id" ELSE "channel_not_found"]_vars

\* A publish has returned with the warning, the target being 0.
C7_Witness ==
  /\ loopPc = "sleeping"
  /\ status_message_id = 0
  /\ channel
  /\ log = "no_id"
  /\ edited = NoEdit

\* C8: each tick makes one fetch and then one publish attempt, the publish
\* beginning after the fetch has returned whatever it returned, and a tick
\* begins only when the tick before it has made both.
C8_TickSequential ==
  /\ loopPc # "stopped"
  /\ fetches = (IF loopPc = "fetching" THEN ticks - 1 ELSE ticks)
  /\ publishes = (IF loopPc \in {"fetching", "fetched"} THEN ticks - 1 ELSE ticks)

\* The second tick awaits the platform in its publish, a command being in
\* flight as well.
C8_Witness ==
  /\ ticks = 2
  /\ loopPc = "pub_edit"
  /\ fetches = 2
  /\ publishes = 2
  /\ setupPc = "sending"

\* The task has entered its loop.
Running == loopPc \notin {"not_started", "before_loop"}

\* C9: once running the tick driver never stops: no exception leaves the
\* handler, and wherever a tick stands after its fetch (whatever the fetch
\* and the publish did), the next tick eventually begins its fetch.  The
\* last tick the model explores is left out.
C9_LoopNeverStops ==
  /\ [](loopPc # "stopped")
  /\ (Running /\ loopPc # "fetching" /\ ticks < MaxTicks) ~> (loopPc = "fetching")

\* The second tick's fetch has failed, as the first changed nothing, and
\* the task goes on to its publish.
C9_Witness ==
  /\ ticks = 2
  /\ loopPc = "fetched"
  /\ ~fetchRet
  /\ current_status = InitialStatus

\* The classification the claim gives a store.
Classified(store) ==
  IF \A c \in Components : store[c].status = "Online"
  THEN <<"All Systems Operational", 5763719>>
  ELSE IF \E c \in Components : store[c].status = "Offline"
  THEN <<"Critical Issues Detected", 15548997>>
  ELSE <<"Some Systems Degraded", 16705372>>

\* C10: the embed of a store is All Operational (0x57F287) when all three
\* are Online, else Critical (0xED4245) when one is Offline, else Degraded
\* (0xFEE75C); so is every embed an edit has written.
C10_HealthClassification ==
  /\ LET e == create_status_embed(current_status) IN
       <<e.footer, e.color>> = Classified(current_status)
  /\ edited # NoEdit =>
       <<edited.embed.footer, edited.embed.color>> = Classified(edited.embed.fields)

\* An edit has written Critical for one Offline component among Online ones.
C10_Witness ==
  /\ edited # NoEdit
  /\ edited.embed.footer = "Critical Issues Detected"
  /\ current_status["admin"].status = "Online"
  /\ current_status["usermode"].status = "Offline"
  /\ current_status["server"].status = "Online"

\* C11: only the fetch changes the Status Store: rendering, every branch
\* of update_status_message and the setup command leave status, color and
\* last_update of all three components as they were.
C11_OnlyFetchMutates ==
  [][current_status' # current_status
       => (loopPc = "fetching" /\ loopPc' # "fetching")]_vars

\* A store the fetch has changed has been rendered by a command whose
\* message was sent and by a publish that edited its target.
C11_Witness ==
  /\ current_status # InitialStatus
  /\ \E c \in Components : current_status[c].last_update = None
  /\ setupsSent = 1
  /\ log = "updated"
  /\ edited.embed = create_status_embed(current_status)

\* C12: nothing of the loop happens before readiness has been signalled:
\* until then no tick has begun, no fetch has returned and no publish has
\* been attempted; the loop task has not even been started, since it is the
\* readiness handler that starts it.
C12_NoTickBeforeReady ==
  ~ready => /\ loopPc = "not_started"
            /\ ticks = 0
            /\ fetches = 0
            /\ publishes = 0

\* The first tick is awaiting its fetch, after the readiness signal.
C12_Witness ==
  /\ ready
  /\ ticks = 1
  /\ loopPc = "fetching"
  /\ fetches = 0

\* C13: each component's stored glyph is the one STATUS_OPTIONS gives, for
\* that component, to its stored status (the initial red Offline entries
\* included); the fallback glyph is never stored.
C13_GlyphMatchesStatus ==
  \A c \in Components :
    /\ current_status[c].status \in DOMAIN STATUS_OPTIONS[c]
    /\ current_status[c].color = STATUS_OPTIONS[c][current_status[c].status]
    /\ current_status[c].color # FallbackGlyph

\* The fetch has stored a status of each table that only that table has,
\* each with its glyph.
C13_Witness ==
  /\ current_status["admin"].status = "Sleeping"
  /\ current_status["admin"].color = "orange"
  /\ current_status["usermode"].status = "Updating"
  /\ current_status["usermode"].color = "yellow"
  /\ current_status["server"].status = "Medium"
  /\ current_status["server"].color = "yellow"

\* What the three fields of a rendering of a store show.
Shown(store) ==
  [c \in Components |->
     [glyph |-> store[c].color,
      status |-> store[c].status,
      last_update |-> IF store[c].last_update = None THEN NeverText
                      ELSE store[c].last_update]]

\* C14: what a tick's edit has written is the rendering of the store as
\* that tick's fetch left it, also when a setup command runs during the
\* tick; with no message created by a command, the message edited is the
\* configured one; and when the first tick's fetch has made all three Online,
\* all three carry that tick's timestamp and the edit says All Operational.
C14_EditRendersFetchedStore ==
  edited # NoEdit =>
    /\ edited.embed.fields = Shown(current_status)
    /\ <<edited.embed.footer, edited.embed.color>> = Classified(current_status)
    /\ setupsSent = 0 => edited.id = status_message_id
    /\ (ticks = 1 /\ \A c \in Components : current_status[c].status = "Online")
         => /\ \A c \in Components : current_status[c].last_update = now
            /\ edited.embed.footer = "All Systems Operational"

\* The first tick fetched all three Online and edited the configured
\* message, with a setup command's message sent during the tick.
C14_Witness ==
  /\ ticks = 1
  /\ \A c \in Components : /\ current_status[c].status = "Online"
                           /\ current_status[c].last_update = 1
  /\ edited.id = ConfiguredId
  /\ edited.embed.footer = "All Systems Operational"
  /\ edited.embed.color = ColorOperational
  /\ setupsSent = 1

\* C15: a component whose last_update is unset is Offline; that is, every
\* component whose status is not Offline has a timestamp.
C15_UnsetMeansOffline ==
  \A c \in Components :
    current_status[c].last_update = None => current_status[c].status = "Offline"

\* One component has left Offline and has a timestamp, one has never changed,
\* and one is Offline again with a timestamp (the converse fails).
C15_Witness ==
  /\ current_status["admin"].status = "Busy"
  /\ current_status["admin"].last_update # None
  /\ current_status["usermode"] = InitialStatus["usermode"]
  /\ current_status["server"].status = "Offline"
  /\ current_status["server"].last_update # None

\* The identifier of the message a setup command created last.  Setup
\* commands are modelled one at a time.
EmbedPositions == {i \in 1..Len(created) : created[i] = "embed"}
Newest == MessageId(CHOOSE i \in EmbedPositions : \A j \in EmbedPositions : j <= i)

\* A step in which a publish attempt begins, and one in which it ends.
PublishBegins == loopPc = "fetched" /\ loopPc' # "fetched"
PublishEnds ==
  /\ loopPc \in {"fetched", "pub_fetch_message", "pub_edit"}
  /\ loopPc' = "sleeping"

SetupRenders == setupPc = "idle" /\ setupPc' = "sending"
PublishRenders == PublishBegins /\ pub' # NoPub

\* C17: no state lies in the middle of a fetch's update loop: the store is
\* always as the last fetch left it when it returned (as constructed, before
\* the first), and so is every snapshot a setup command or a publish attempt
\* renders, also a command that runs while a tick awaits its fetch.
C17_RendersSeeWholeFetches ==
  /\ [](current_status = boundary)
  /\ [][SetupRenders => setupEmbed' = create_status_embed(boundary)]_vars
  /\ [][PublishRenders => pub'.embed = create_status_embed(boundary)]_vars

\* A setup command has rendered the store the first tick's fetch left while
\* the second tick awaits its fetch.
C17_Witness ==
  /\ ticks = 2
  /\ loopPc = "fetching"
  /\ setupPc = "sending"
  /\ current_status # InitialStatus
  /\ setupEmbed = create_status_embed(current_status)

====
